---- MODULE Spec2Model ----
(***************************************************************************)
(* Track lifecycle of package mediadevices (track.go): creation of video   *)
(* and audio tracks, the per-track processing loop (start), the failure    *)
(* callback slot (OnEnded / onError) and Stop.                             *)
(* A run is about one driver d, a video or an audio device, and the tracks *)
(* created on it: tracks on different drivers share no state.              *)
(* Fitness distance of package prop (pkg/prop/prop.go): one call of        *)
(* Media.FitnessDistance, the map it fills and the loop over that map.     *)
(***************************************************************************)
EXTENDS Integers, Sequences, FiniteSets, TLC

\* ---------------------------------------------------------------- bounds
MaxTracks == 1         \* tracks created on the driver per run

\* ------------------------------------------------------- program constants
InitBuff == 1024       \* buff := make([]byte, 1024)

Kinds == {"video", "audio"}
Handlers == {1, 2}     \* callbacks a caller may pass to OnEnded; 0 is the empty slot
ReqSizes == {300, 2000}  \* RequiredSize values an encoder may report
CodecNames == {"MockVideo", "MockAudio", "Unknown"}

\* the codec lists of the media engine, per kind (opts.codecs)
codecs ==
  [video |-> << [Name |-> "MockVideo", PayloadType |-> 1] >>,
   audio |-> << [Name |-> "MockAudio", PayloadType |-> 2] >>]

VARIABLES
  d,            \* the driver: its kind, and whether it is open
  tracks,       \* the tracks created on d so far, each with its loop's position
  lastCall,     \* the creation call that has just returned: what it was given
                \* and did; NoCall as soon as anything else has happened
  stored,       \* the OnEnded call that has returned last, while nothing but
                \* the loop of its track has run since; NoStore otherwise
  call,         \* Media.FitnessDistance: the receiver p and the argument o
  cmps,         \* Media.FitnessDistance: the comparisons map
  todo,         \* fitnessDistance: the keys the range loop has yet to visit
  dist,         \* fitnessDistance: the sum so far
  fpc           \* where the FitnessDistance call is

trackVars == <<d, tracks, lastCall, stored>>
propVars == <<call, cmps, todo, dist, fpc>>
vars == <<d, tracks, lastCall, stored, call, cmps, todo, dist, fpc>>

\* ------------------------------------------------------------ track.go:39
\* index of the first codec of the list named codecName, 0 if there is none
RECURSIVE selectedCodec(_, _, _)
selectedCodec(list, codecName, i) ==
  IF i > Len(list) THEN 0
  ELSE IF list[i].Name = codecName THEN i
  ELSE selectedCodec(list, codecName, i + 1)

\* faulty variant of newTrack: no "selectedCodec == nil" check, the first
\* codec of the list stands in
newTrackUnchecked(list, genOK, codecName) ==
  LET sel == IF selectedCodec(list, codecName, 1) = 0 THEN 1
             ELSE selectedCodec(list, codecName, 1) IN
  IF ~genOK THEN [err |-> "GenErr", genCalled |-> TRUE]
  ELSE [err |-> "nil", genCalled |-> TRUE]

\* newTrack: look the codec up, then ask the track generator for the sink
newTrack(list, genOK, codecName) ==
  LET sel == selectedCodec(list, codecName, 1) IN
  IF sel = 0 THEN [err |-> "NotRegistered", genCalled |-> FALSE]
  ELSE IF ~genOK THEN [err |-> "GenErr", genCalled |-> TRUE]
  ELSE [err |-> "nil", genCalled |-> TRUE]

\* driver.Driver.Open: the device handle is acquired exclusively
DriverOpen(isOpen, openOK) ==
  IF isOpen \/ ~openOK THEN [err |-> "OpenErr", open |-> isOpen]
  ELSE [err |-> "nil", open |-> TRUE]

\* the encoder builders registered for the codec names
BuildVideoEncoder(codecName, bitRate) ==
  IF codecName = "MockVideo" /\ bitRate = 0 THEN "BuildErr" ELSE "nil"

BuildAudioEncoder(codecName, bitRate) == "nil"

Res(err, genCalled, openCalled, open, started) ==
  [err |-> err, genCalled |-> genCalled, openCalled |-> openCalled,
   open |-> open, started |-> started]

\* faulty variant of newVideoTrack: the loop is started once the device is open
newVideoTrackEarlyStart(in, isOpen) ==
  LET t == newTrack(codecs.video, in.genOK, in.codecName) IN
  IF t.err # "nil" THEN Res(t.err, t.genCalled, FALSE, isOpen, FALSE)
  ELSE LET o == DriverOpen(isOpen, in.openOK) IN
    IF o.err # "nil" THEN Res(o.err, TRUE, TRUE, o.open, FALSE)
    ELSE IF ~in.recOK THEN Res("RecordErr", TRUE, TRUE, o.open, TRUE)
    ELSE LET b == BuildVideoEncoder(in.codecName, in.bitRate) IN
      IF b # "nil" THEN Res(b, TRUE, TRUE, o.open, TRUE)
      ELSE Res("nil", TRUE, TRUE, o.open, TRUE)

\* newVideoTrack: newTrack, d.Open, VideoRecord, BuildVideoEncoder, go start
newVideoTrack(in, isOpen) ==
  LET t == newTrack(codecs.video, in.genOK, in.codecName) IN
  IF t.err # "nil" THEN Res(t.err, t.genCalled, FALSE, isOpen, FALSE)
  ELSE LET o == DriverOpen(isOpen, in.openOK) IN
    IF o.err # "nil" THEN Res(o.err, TRUE, TRUE, o.open, FALSE)
    ELSE IF ~in.recOK THEN Res("RecordErr", TRUE, TRUE, o.open, FALSE)
    ELSE LET b == BuildVideoEncoder(in.codecName, in.bitRate) IN
      IF b # "nil" THEN Res(b, TRUE, TRUE, o.open, FALSE)
      ELSE Res("nil", TRUE, TRUE, o.open, TRUE)

\* newAudioTrack: newTrack, d.Open, AudioRecord, BuildAudioEncoder, go start
newAudioTrack(in, isOpen) ==
  LET t == newTrack(codecs.audio, in.genOK, in.codecName) IN
  IF t.err # "nil" THEN Res(t.err, t.genCalled, FALSE, isOpen, FALSE)
  ELSE LET o == DriverOpen(isOpen, in.openOK) IN
    IF o.err # "nil" THEN Res(o.err, TRUE, TRUE, o.open, FALSE)
    ELSE IF ~in.recOK THEN Res("RecordErr", TRUE, TRUE, o.open, FALSE)
    ELSE LET b == BuildAudioEncoder(in.codecName, in.bitRate) IN
      IF b # "nil" THEN Res(b, TRUE, TRUE, o.open, FALSE)
      ELSE Res("nil", TRUE, TRUE, o.open, TRUE)

\* what a creation call is given: the constraints (codec name, bit rate) and
\* the answers of its collaborators (track generator, driver Open, Record).
\* constraints(k) are the valid constraints of TestGetUserMedia with working
\* collaborators; Inputs(k) are these and every change of one of the five.
constraints(k) ==
  [codecName |-> codecs[k][1].Name,
   bitRate |-> IF k = "video" THEN 100000 ELSE 32000,
   genOK |-> TRUE, openOK |-> TRUE, recOK |-> TRUE]

Inputs(k) ==
  {constraints(k)}
    \cup {[constraints(k) EXCEPT !.codecName = c] : c \in CodecNames}
    \cup {[constraints(k) EXCEPT !.bitRate = 0]}
    \cup {[constraints(k) EXCEPT !.genOK = FALSE]}
    \cup {[constraints(k) EXCEPT !.openOK = FALSE]}
    \cup {[constraints(k) EXCEPT !.recOK = FALSE]}

\* a call whose constraints are valid for kind k (a codec of the list, a bit
\* rate its builder accepts) and whose collaborators work
Good(k, in) ==
  /\ selectedCodec(codecs[k], in.codecName, 1) # 0
  /\ (IF k = "video" THEN BuildVideoEncoder(in.codecName, in.bitRate)
      ELSE BuildAudioEncoder(in.codecName, in.bitRate)) = "nil"
  /\ in.genOK /\ in.openOK /\ in.recOK

\* the track as start() finds it: empty callback slot (0), buffer of 1024 bytes
track ==
  [pc |-> "read", onErrorHandler |-> 0,
   buff |-> InitBuff, n |-> 0, closed |-> FALSE, err |-> "nil",
   fired |-> << >>, stop |-> "no", ibe |-> 0]

NoCall ==
  [codecName |-> "Unknown", good |-> FALSE,
   err |-> "nil", genCalled |-> FALSE, openCalled |-> FALSE,
   devBefore |-> FALSE, started |-> FALSE, tracksBefore |-> 0]

\* no OnEnded call on record
NoStore == [track |-> 0, handler |-> 0, replaced |-> 0, live |-> FALSE]

\* the OnEnded call on record after a loop step of track i
kept(i) == IF stored.track = i THEN stored ELSE NoStore

\* the call returns: the device is as the call left it, the loop of a created
\* track is running, the call is on record
Created(in, r) ==
  /\ r.started => Len(tracks) < MaxTracks
  /\ d' = [d EXCEPT !.open = r.open]
  /\ tracks' = IF r.started THEN Append(tracks, track) ELSE tracks
  /\ lastCall' = [codecName |-> in.codecName,
                  good |-> Good(d.kind, in), err |-> r.err,
                  genCalled |-> r.genCalled, openCalled |-> r.openCalled,
                  devBefore |-> d.open, started |-> r.started,
                  tracksBefore |-> Len(tracks)]
  /\ stored' = NoStore
  /\ UNCHANGED propVars

\* d.(driver.VideoRecorder): newVideoTrack is for video drivers
NewVideoTrack ==
  /\ d.kind = "video"
  /\ \E in \in Inputs("video") : Created(in, newVideoTrack(in, d.open))

\* d.(driver.AudioRecorder): newAudioTrack is for audio drivers
NewAudioTrack ==
  /\ d.kind = "audio"
  /\ \E in \in Inputs("audio") : Created(in, newAudioTrack(in, d.open))

\* ------------------------------------------------------ track.go:68, 72
\* faulty variant of OnEndedStore: a handler already stored is kept
OnEndedStoreOnce(t, handler) ==
  IF t.onErrorHandler # 0 THEN t ELSE [t EXCEPT !.onErrorHandler = handler]

\* OnEnded: atomically store the handler in the slot
OnEndedStore(t, handler) == [t EXCEPT !.onErrorHandler = handler]

\* faulty variant of onError: the handler is given a wrapping error
onErrorWrapped(t, err) ==
  IF t.onErrorHandler # 0
  THEN [t EXCEPT !.fired = Append(@, [h |-> t.onErrorHandler, err |-> "Wrapped"])]
  ELSE t

\* onError: load the slot; call the handler with err unless the slot is empty
onError(t, err) ==
  IF t.onErrorHandler # 0
  THEN [t EXCEPT !.fired = Append(@, [h |-> t.onErrorHandler, err |-> err])]
  ELSE t

\* faulty variant of ended: no return after onError, the loop goes on
endedNoReturn(t, err) == [onError(t, err) EXCEPT !.pc = "sample", !.err = err]

\* faulty variant of stopped: Stop closes nothing
stoppedNoClose(t) ==
  [t EXCEPT !.stop = IF @ # "no" THEN @ ELSE IF t.pc = "done" THEN "late" ELSE "clean"]

\* "onError(err); return": the loop reports the error and ends; its locals
\* buff and n are gone with it
ended(t, err) ==
  [onError(t, err) EXCEPT !.pc = "done", !.err = err, !.buff = 0, !.n = 0]

\* what encoder.Read may answer: after the device or the encoder was closed
\* the end-of-stream indicator; on a live encoder n bytes (none, or len(b) as
\* the mock codecs answer), the insufficient-buffer error with a required size, end of stream or an error
ReadOutcomes(t) ==
  IF t.closed THEN {[err |-> "EOF", R |-> 0, n |-> 0]}
  ELSE {[err |-> "nil", R |-> 0, n |-> m] : m \in {0, t.buff}}
       \cup {[err |-> "IBE", R |-> r, n |-> 0] : r \in ReqSizes}
       \cup {[err |-> e, R |-> 0, n |-> 0] : e \in {"EOF", "ReadErr"}}

\* faulty variant of videoRead: the new buffer has the required size, not twice
videoReadExact(t, o) ==
  IF o.err # "nil"
  THEN IF o.err = "IBE"
       THEN [t EXCEPT !.buff = o.R]
       ELSE ended(t, o.err)
  ELSE [t EXCEPT !.n = o.n, !.pc = "sample"]

\* videoTrack.start, from the read to the branch on its error
videoRead(t, o) ==
  IF o.err # "nil"
  THEN IF o.err = "IBE"
       THEN [t EXCEPT !.buff = 2 * o.R]
       ELSE ended(t, o.err)
  ELSE [t EXCEPT !.n = o.n, !.pc = "sample"]

\* faulty variant of videoSample: the loop goes on after a sink error
videoSampleGoOn(t, sinkOK) ==
  IF ~sinkOK THEN [onError(t, "SinkErr") EXCEPT !.err = "SinkErr", !.n = 0, !.pc = "read"]
  ELSE [t EXCEPT !.n = 0, !.pc = "read"]

\* videoTrack.start, the hand-over of buff[:n] to the sampler; n is not read
\* again before the next Read sets it
videoSample(t, sinkOK) ==
  IF ~sinkOK THEN ended(t, "SinkErr") ELSE [t EXCEPT !.n = 0, !.pc = "read"]

\* faulty variant of audioRead: every read error is answered by another read
audioReadRetry(t, o) ==
  IF o.err # "nil"
  THEN t
  ELSE [t EXCEPT !.n = o.n, !.pc = "sample"]

\* audioTrack.start, from the read to the branch on its error
audioRead(t, o) ==
  IF o.err # "nil"
  THEN ended(t, o.err)
  ELSE [t EXCEPT !.n = o.n, !.pc = "sample"]

\* audioTrack.start, the WriteSample of buff[:n]; n is local to the iteration
audioSample(t, sinkOK) ==
  IF ~sinkOK THEN ended(t, "SinkErr") ELSE [t EXCEPT !.n = 0, !.pc = "read"]

\* videoTrack.Stop / audioTrack.Stop on the track itself: d.Close(), encoder.Close()
stopped(t) ==
  [t EXCEPT !.closed = TRUE,
            !.stop = IF @ # "no" THEN @ ELSE IF t.pc = "done" THEN "late" ELSE "clean"]

\* driver Close seen by another track of the device: its reader ends
deviceClosed(u) == [u EXCEPT !.closed = TRUE]

\* bookkeeping for the properties: the required size the read reported, kept
\* while the loop runs
didRead(new, o) ==
  [new EXCEPT !.ibe = IF o.err = "IBE" /\ new.pc # "done" THEN o.R ELSE 0]

Ids == 1..Len(tracks)

VideoRead(i) ==
  /\ d.kind = "video" /\ tracks[i].pc = "read"
  /\ \E o \in ReadOutcomes(tracks[i]) :
       tracks' = [tracks EXCEPT ![i] = didRead(videoRead(@, o), o)]
  /\ lastCall' = NoCall /\ stored' = kept(i) /\ UNCHANGED <<d, propVars>>

VideoSample(i) ==
  /\ d.kind = "video" /\ tracks[i].pc = "sample"
  /\ \E sinkOK \in BOOLEAN :
       tracks' = [tracks EXCEPT ![i] = videoSample(@, sinkOK)]
  /\ lastCall' = NoCall /\ stored' = kept(i) /\ UNCHANGED <<d, propVars>>

AudioRead(i) ==
  /\ d.kind = "audio" /\ tracks[i].pc = "read"
  /\ \E o \in ReadOutcomes(tracks[i]) :
       tracks' = [tracks EXCEPT ![i] = didRead(audioRead(@, o), o)]
  /\ lastCall' = NoCall /\ stored' = kept(i) /\ UNCHANGED <<d, propVars>>

AudioSample(i) ==
  /\ d.kind = "audio" /\ tracks[i].pc = "sample"
  /\ \E sinkOK \in BOOLEAN :
       tracks' = [tracks EXCEPT ![i] = audioSample(@, sinkOK)]
  /\ lastCall' = NoCall /\ stored' = kept(i) /\ UNCHANGED <<d, propVars>>

OnEnded(i) ==
  /\ \E handler \in Handlers :
       /\ tracks' = [tracks EXCEPT ![i] = OnEndedStore(@, handler)]
       /\ stored' = [track |-> i, handler |-> handler,
                     replaced |-> tracks[i].onErrorHandler,
                     live |-> tracks[i].pc # "done"]
  /\ lastCall' = NoCall /\ UNCHANGED <<d, propVars>>

Stop(i) ==
  /\ d' = [d EXCEPT !.open = FALSE]
  /\ tracks' = [j \in Ids |->
                  IF j = i THEN stopped(tracks[j]) ELSE deviceClosed(tracks[j])]
  /\ lastCall' = NoCall /\ stored' = NoStore /\ UNCHANGED propVars

\* ============================================================ pkg/prop/prop.go
\* Texts are sequences of characters, numbers of type float64 are fractions
\* num/den in lowest terms; den = 0 is NaN, the result of 0/0.

IntVals == {0, 480, 640}        \* Width, Height of a Media
RateVals == {0, 640}            \* SampleRate of a Media
LatencyVals == {0, 20}          \* Latency of a Media, in milliseconds
\* FrameFormat of a Media: frame.Format is a string type; the unset format,
\* two formats of package frame and a string that reads as a number
FormatVals ==
  { << >>, <<"I", "4", "2", "0">>, <<"Y", "U", "Y", "2">>, <<"6", "4", "0">> }

Medias ==
  [Width : IntVals, Height : IntVals, FrameFormat : FormatVals,
   SampleRate : RateVals, Latency : LatencyVals]

Digit == <<"0", "1", "2", "3", "4", "5", "6", "7", "8", "9">>

Abs(x) == IF x < 0 THEN -x ELSE x
Max(x, y) == IF x > y THEN x ELSE y

RECURSIVE GCD(_, _)
GCD(x, y) == IF y = 0 THEN x ELSE GCD(y, x % y)

\* the float64 num/den
Float(num, den) ==
  IF den = 0 THEN [num |-> 0, den |-> 0]
  ELSE LET g == GCD(Abs(num), Abs(den)) IN
       [num |-> (IF den < 0 THEN -num ELSE num) \div g, den |-> Abs(den) \div g]

FloatAdd(x, y) ==
  IF x.den = 0 \/ y.den = 0 THEN Float(0, 0)
  ELSE Float(x.num * y.den + y.num * x.den, x.den * y.den)

FloatQuo(x, y) ==
  IF x.den = 0 \/ y.den = 0 THEN Float(0, 0)
  ELSE Float(x.num * y.den, x.den * y.num)

FloatAbs(x) == [x EXCEPT !.num = Abs(@)]

FloatMax(x, y) ==
  IF x.den = 0 \/ y.den = 0 THEN Float(0, 0)
  ELSE IF x.num * y.den > y.num * x.den THEN x ELSE y

\* the values handed to add as interface{}: their dynamic type and value
IntValue(v) == [type |-> "int", v |-> v]
FormatValue(v) == [type |-> "frame.Format", v |-> v]
DurationValue(v) == [type |-> "time.Duration", v |-> v]

\* decimal digits of n >= 0
RECURSIVE Itoa(_)
Itoa(n) ==
  IF n < 10 THEN << Digit[n + 1] >>
  ELSE Itoa(n \div 10) \o << Digit[(n % 10) + 1] >>

\* time.Duration.String for whole milliseconds below one second
DurationString(ms) ==
  IF ms = 0 THEN <<"0", "s">> ELSE Itoa(ms) \o <<"m", "s">>

\* fmt.Sprint of one value
Sprint(x) ==
  CASE x.type = "int" -> IF x.v < 0 THEN <<"-">> \o Itoa(-x.v) ELSE Itoa(x.v)
    [] x.type = "frame.Format" -> x.v
    [] x.type = "time.Duration" -> DurationString(x.v)

IsDigits(text) ==
  Len(text) > 0 /\ \A k \in 1..Len(text) : \E c \in 1..10 : Digit[c] = text[k]

RECURSIVE Atoi(_)
Atoi(text) ==
  IF Len(text) = 0 THEN 0
  ELSE 10 * Atoi(SubSeq(text, 1, Len(text) - 1))
       + ((CHOOSE c \in 1..10 : Digit[c] = text[Len(text)]) - 1)

\* strconv.ParseFloat(text, 64) on decimal integers with an optional sign;
\* any other text is a syntax error
ParseFloat(text) ==
  IF Len(text) > 1 /\ text[1] \in {"-", "+"} /\ IsDigits(Tail(text))
  THEN [err |-> "nil",
        f |-> Float((IF text[1] = "-" THEN -1 ELSE 1) * Atoi(Tail(text)), 1)]
  ELSE IF IsDigits(text) THEN [err |-> "nil", f |-> Float(Atoi(text), 1)]
  ELSE [err |-> "ErrSyntax", f |-> Float(0, 1)]

\* the empty comparisons map
comparisons == [k \in {} |-> << >>]

\* comparisons.add: c[fmt.Sprint(actual)] = fmt.Sprint(ideal)
add(c, actual, ideal) ==
  [k \in DOMAIN c \cup {Sprint(actual)} |->
     IF k = Sprint(actual) THEN Sprint(ideal) ELSE c[k]]

\* Media.FitnessDistance up to the call of fitnessDistance: the five adds
FitnessDistance(p, o) ==
  LET c1 == add(comparisons, IntValue(p.Width), IntValue(o.Width))
      c2 == add(c1, IntValue(p.Height), IntValue(o.Height))
      c3 == add(c2, FormatValue(p.FrameFormat), FormatValue(o.FrameFormat))
      c4 == add(c3, IntValue(p.SampleRate), IntValue(o.SampleRate))
      c5 == add(c4, DurationValue(p.Latency), DurationValue(o.Latency))
  IN c5

FloatSub(x, y) == FloatAdd(x, [y EXCEPT !.num = -@])

\* faulty variant of fitnessDistanceStep: the raw absolute difference of two
\* numbers
fitnessDistanceStepRaw(sum, actual, ideal) ==
  IF actual = ideal THEN [dist |-> sum, panic |-> FALSE]
  ELSE LET a == ParseFloat(actual)
           i == ParseFloat(ideal) IN
    IF a.err = "nil" /\ i.err = "nil"
    THEN [dist |-> FloatAdd(sum, FloatAbs(FloatSub(a.f, i.f))), panic |-> FALSE]
    ELSE IF a.err # "nil" /\ i.err # "nil"
    THEN [dist |-> FloatAdd(sum, Float(1, 1)), panic |-> FALSE]
    ELSE [dist |-> sum, panic |-> TRUE]

\* faulty variant of fitnessDistanceStep: a mixed pair counts as a mismatch
fitnessDistanceStepNoPanic(sum, actual, ideal) ==
  IF actual = ideal THEN [dist |-> sum, panic |-> FALSE]
  ELSE LET a == ParseFloat(actual)
           i == ParseFloat(ideal) IN
    IF a.err = "nil" /\ i.err = "nil"
    THEN [dist |-> FloatAdd(sum, FloatQuo(FloatAbs(FloatSub(a.f, i.f)),
                                           FloatMax(FloatAbs(a.f), FloatAbs(i.f)))),
          panic |-> FALSE]
    ELSE [dist |-> FloatAdd(sum, Float(1, 1)), panic |-> FALSE]

\* fitnessDistance, one iteration of the range loop on the entry
\* (actual, ideal): the new sum, or the panic
fitnessDistanceStep(sum, actual, ideal) ==
  IF actual = ideal THEN [dist |-> sum, panic |-> FALSE]
  ELSE LET a == ParseFloat(actual)
           i == ParseFloat(ideal) IN
    IF a.err = "nil" /\ i.err = "nil"
    THEN [dist |-> FloatAdd(sum, FloatQuo(FloatAbs(FloatSub(a.f, i.f)),
                                           FloatMax(FloatAbs(a.f), FloatAbs(i.f)))),
          panic |-> FALSE]
    ELSE IF a.err # "nil" /\ i.err # "nil"
    THEN [dist |-> IF actual # ideal THEN FloatAdd(sum, Float(1, 1)) ELSE sum,
          panic |-> FALSE]
    ELSE [dist |-> sum, panic |-> TRUE]

\* the Media of a call that is not under way
NoMedia ==
  [Width |-> 0, Height |-> 0, FrameFormat |-> << >>, SampleRate |-> 0, Latency |-> 0]

\* p.FitnessDistance(o) fills the map and enters fitnessDistance
FitnessDistanceCall ==
  /\ fpc = "call"
  /\ cmps' = FitnessDistance(call.p, call.o)
  /\ todo' = DOMAIN cmps'
  /\ dist' = Float(0, 1)
  /\ fpc' = "range"
  /\ UNCHANGED <<call, trackVars>>

\* one iteration of "for actual, ideal := range c", in the order the map
\* happens to yield its entries
Range ==
  /\ fpc = "range"
  /\ \E actual \in todo :
       LET r == fitnessDistanceStep(dist, actual, cmps[actual]) IN
       /\ todo' = todo \ {actual}
       /\ dist' = r.dist
       /\ fpc' = IF r.panic THEN "panic" ELSE "range"
  /\ UNCHANGED <<call, cmps, trackVars>>

\* "return dist" once the range is exhausted
Return ==
  /\ fpc = "range" /\ todo = {}
  /\ fpc' = "return"
  /\ UNCHANGED <<call, cmps, todo, dist, trackVars>>

\* ================================================================ runs
Init ==
  /\ d \in {[kind |-> k, open |-> FALSE] : k \in Kinds}
  /\ tracks = << >>
  /\ lastCall = NoCall
  /\ stored = NoStore
  /\ call = [p |-> NoMedia, o |-> NoMedia]
  /\ cmps = comparisons /\ todo = {} /\ dist = Float(0, 1) /\ fpc = "idle"

Next ==
  \/ NewVideoTrack
  \/ NewAudioTrack
  \/ \E i \in Ids : VideoRead(i)
  \/ \E i \in Ids : VideoSample(i)
  \/ \E i \in Ids : AudioRead(i)
  \/ \E i \in Ids : AudioSample(i)
  \/ \E i \in Ids : OnEnded(i)
  \/ \E i \in Ids : Stop(i)

Spec == Init /\ [][Next]_vars

\* the steps of the loop of track i: the goroutine started by "go start()"
Loop(i) ==
  /\ i \in Ids
  /\ (VideoRead(i) \/ VideoSample(i) \/ AudioRead(i) \/ AudioSample(i))

\* the scheduler lets every loop that can take a step take one eventually
FairSpec == Spec /\ \A i \in 1..MaxTracks : WF_vars(Loop(i))

\* one call p.FitnessDistance(o), for any two Media p and o
PropInit ==
  /\ call \in [p : Medias, o : Medias]
  /\ cmps = comparisons /\ todo = {} /\ dist = Float(0, 1) /\ fpc = "call"
  /\ d = [kind |-> "video", open |-> FALSE]
  /\ tracks = << >>
  /\ lastCall = NoCall
  /\ stored = NoStore

PropNext ==
  \/ FitnessDistanceCall
  \/ Range
  \/ Return

PropSpec == PropInit /\ [][PropNext]_vars


\* ================================================================ claims
Track(i) == tracks[i]
Called == lastCall # NoCall

\* C1: the failure callback of a track is invoked at most once over the whole
\* life of the track, whatever the order of OnEnded calls, Stop calls and
\* loop steps.
C1_CallbackAtMostOnce == \A i \in Ids : Len(Track(i).fired) <= 1

\* a loop has ended and its callback has been invoked
C1_Witness ==
  \E i \in Ids : Track(i).pc = "done" /\ Len(Track(i).fired) = 1

\* C2 (as claimed): when the loop of a track hits a runtime failure (a read
\* error other than insufficient-buffer, or a sink error) that no Stop of the
\* track preceded, the callback the caller registers through OnEnded is
\* invoked exactly once with that error, wherever the registration falls
\* relative to the loop.
C2_FailureDelivered ==
  \A i \in Ids :
    ( /\ Track(i).pc = "done"
      /\ Track(i).err \in {"EOF", "ReadErr", "SinkErr"}
      /\ Track(i).stop \in {"no", "late"}
      /\ Track(i).onErrorHandler # 0 )
    => /\ Len(Track(i).fired) = 1
       /\ Track(i).fired[1].err = Track(i).err

\* C3 (as claimed): after Stop on a running track without earlier failure,
\* when the next read returns the end-of-stream indicator, the callback is
\* never invoked.
C3_NoCallbackAfterStop ==
  \A i \in Ids :
    (Track(i).stop = "clean" /\ Track(i).err = "EOF") => Track(i).fired = << >>

\* C3 (amended): the read that follows Stop on a running track without
\* earlier failure returns the end-of-stream indicator and ends the loop; the
\* callback stored in the slot at that moment is invoked once, with the
\* end-of-stream indicator, and nothing is invoked if the slot is empty.
C3_StopEndsLoopWithEOF ==
  [][ \A i \in Ids :
        ( /\ Track(i).stop = "clean"
          /\ Track(i).pc = "read"
          /\ tracks'[i].pc # "read" )
        => /\ tracks'[i].pc = "done"
           /\ tracks'[i].err = "EOF"
           /\ tracks'[i].fired =
                IF Track(i).onErrorHandler # 0
                THEN << [h |-> Track(i).onErrorHandler, err |-> "EOF"] >>
                ELSE << >> ]_vars

\* a stopped track whose loop ended on the read after Stop, handler 2 invoked
C3_Witness ==
  \E i \in Ids :
    /\ Track(i).stop = "clean" /\ Track(i).pc = "done"
    /\ Track(i).fired = << [h |-> 2, err |-> "EOF"] >>

\* C4 (as claimed): once Stop has returned on a track, its loop performs no
\* further encoder read and no further emission to the sink. The read that
\* finds the encoder closed and ends the loop is not held against the claim:
\* after Stop no sample is handed to the sink, and a read yields nothing but
\* the end of the loop.
C4_NothingAfterStop ==
  [][ \A i \in Ids :
        Track(i).stop # "no"
        => /\ ~(VideoSample(i) \/ AudioSample(i))
           /\ (VideoRead(i) \/ AudioRead(i)) => tracks'[i].pc = "done"
    ]_vars

\* C5 (as claimed): for video and audio tracks, an insufficient-buffer answer
\* with required size R makes the loop retry with a buffer of at least R
\* bytes; it neither ends the loop nor reaches the callback.
C5_InsufficientBufferRetried ==
  \A i \in Ids :
    /\ Track(i).ibe # 0 => Track(i).pc = "read" /\ Track(i).buff >= Track(i).ibe
    /\ Track(i).err # "IBE"
    /\ \A k \in 1..Len(Track(i).fired) : Track(i).fired[k].err # "IBE"

\* C6 (as claimed): when a creation call fails after it opened the device
\* (Record fails, or the encoder builder fails), the device is closed again
\* when the call returns.
C6_DeviceReleasedOnFailure ==
  (Called /\ lastCall.err \in {"RecordErr", "BuildErr"})
  => ~d.open

\* C7: a creation call with a codec name that is not in the codec list of the
\* requested kind returns an error and creates no track; the track generator
\* is not called, the device is not opened and no loop is started.
C7_UnknownCodecCreatesNothing ==
  (Called /\ selectedCodec(codecs[d.kind], lastCall.codecName, 1) = 0)
  => /\ lastCall.err # "nil"
     /\ ~lastCall.genCalled
     /\ ~lastCall.openCalled
     /\ d.open = lastCall.devBefore
     /\ ~lastCall.started
     /\ Len(tracks) = lastCall.tracksBefore

\* a call that asked for a codec name of no list has returned
C7_Witness ==
  Called /\ lastCall.codecName = "Unknown" /\ lastCall.err = "NotRegistered"

\* C8: a creation call that fails at any step (codec lookup, track generator,
\* device open, record, encoder build) returns no track and starts no loop,
\* so that no callback can be invoked on its account.
C8_FailedCallStartsNothing ==
  (Called /\ lastCall.err # "nil")
  => /\ ~lastCall.started
     /\ Len(tracks) = lastCall.tracksBefore

\* the video builder has rejected bit rate 0
C8_Witness ==
  Called /\ d.kind = "video" /\ lastCall.err = "BuildErr"

\* C9 (as claimed): a creation call with valid constraints and working
\* collaborators succeeds when it follows a failed call for the same device,
\* and when Stop has been called on every track created on that device.
C9_RetrySucceeds ==
  [][ ( /\ lastCall' # NoCall
        /\ lastCall'.good
        /\ \/ Called /\ lastCall.err # "nil" /\ ~lastCall.devBefore
           \/ Ids # {} /\ \A i \in Ids : Track(i).stop # "no" )
      => lastCall'.err = "nil" ]_vars

\* C10: on a track that was stopped while its loop was running without
\* failure, and whose sink rejects no sample, the callback receives no error
\* other than the end-of-stream indicator.
C10_OnlyEOFAfterStop ==
  \A i \in Ids :
    (Track(i).stop = "clean" /\ Track(i).err # "SinkErr")
    => \A k \in 1..Len(Track(i).fired) : Track(i).fired[k].err = "EOF"

\* a track stopped while running has delivered the end of stream
C10_Witness ==
  \E i \in Ids :
    /\ Track(i).stop = "clean" /\ Track(i).err = "EOF"
    /\ Len(Track(i).fired) = 1 /\ Track(i).fired[1].err = "EOF"

\* ------------------------------------------------- claims on pkg/prop/prop.go
\* the five compared fields of a call, as the (actual, ideal) values handed to add
Pairs(c) ==
  << <<IntValue(c.p.Width), IntValue(c.o.Width)>>,
     <<IntValue(c.p.Height), IntValue(c.o.Height)>>,
     <<FormatValue(c.p.FrameFormat), FormatValue(c.o.FrameFormat)>>,
     <<IntValue(c.p.SampleRate), IntValue(c.o.SampleRate)>>,
     <<DurationValue(c.p.Latency), DurationValue(c.o.Latency)>> >>

Numeric(text) == ParseFloat(text).err = "nil"
Mixed(actual, ideal) == Numeric(actual) # Numeric(ideal)
NoFieldMixed == \A k \in 1..5 : ~Mixed(Sprint(Pairs(call)[k][1]), Sprint(Pairs(call)[k][2]))

\* the contribution of one field taken alone
FieldDistance(pair) ==
  fitnessDistanceStep(Float(0, 1), Sprint(pair[1]), Sprint(pair[2])).dist

\* the ideal value is not the zero value of its type: the field is constrained
Constrained(pair) ==
  IF pair[2].type = "frame.Format" THEN pair[2].v # << >> ELSE pair[2].v # 0

\* the sum of the contributions of the fields k..5, all of them or only the
\* constrained ones
RECURSIVE FieldSum(_, _, _)
FieldSum(ps, k, all) ==
  IF k > 5 THEN Float(0, 1)
  ELSE FloatAdd(IF all \/ Constrained(ps[k]) THEN FieldDistance(ps[k])
                ELSE Float(0, 1),
                FieldSum(ps, k + 1, all))

\* C11 (as claimed): the total returned by p.FitnessDistance(o) is the sum of
\* the contributions of the five compared fields, each taken alone, also
\* when two fields hold the same actual value.
C11_TotalIsSumOfFields ==
  (fpc = "return" /\ NoFieldMixed)
  => dist = FieldSum(Pairs(call), 1, TRUE)

\* what the claim gives for one pair of texts that is not mixed
C12Contribution(actual, ideal) ==
  IF actual = ideal THEN Float(0, 1)
  ELSE IF Numeric(actual) /\ Numeric(ideal)
  THEN LET a == ParseFloat(actual).f.num
           i == ParseFloat(ideal).f.num IN
       Float(Abs(a - i), Max(Abs(a), Abs(i)))
  ELSE Float(1, 1)

\* C12: an iteration on a pair (actual, ideal) adds 0 to the sum if the two
\* are textually equal, |actual-ideal| / max(|actual|,|ideal|) > 0 if both
\* are numeric and differ, and exactly 1 if both are non-numeric and differ.
C12_PairContribution ==
  [][ \A actual \in todo \ todo' :
        ~Mixed(actual, cmps[actual])
        => /\ dist' = FloatAdd(dist, C12Contribution(actual, cmps[actual]))
           /\ (actual # cmps[actual] /\ Numeric(actual))
              => /\ dist'.den > 0
                 /\ dist'.num * dist.den > dist.num * dist'.den
    ]_vars

\* Width 640 against 480 gave 1/4, format I420 against YUY2 gave 1, the
\* other fields are equal and gave 0
C12_Witness ==
  /\ fpc = "return"
  /\ call.p.Width = 640 /\ call.o.Width = 480
  /\ call.p.FrameFormat = <<"I", "4", "2", "0">>
  /\ call.o.FrameFormat = <<"Y", "U", "Y", "2">>
  /\ call.p.Height = 480 /\ call.o.Height = 480
  /\ call.p.SampleRate = call.o.SampleRate
  /\ call.p.Latency = call.o.Latency
  /\ dist = Float(5, 4)

\* C13 (as claimed): a field whose ideal value is the zero value of its type
\* is left out of the sum, whatever the actual value. Calls in which two
\* fields share an actual text are set aside.
C13_UnconstrainedExcluded ==
  (fpc = "return" /\ NoFieldMixed /\ Cardinality(DOMAIN cmps) = 5)
  => dist = FieldSum(Pairs(call), 1, FALSE)

\* C14: when the map holds a pair of which exactly one text is numeric,
\* fitnessDistance panics and returns no score, whatever the other pairs are
\* and in whatever order the range visits them: such a pair is either still
\* to be visited or has ended the loop in the panic.
C14_MixedPanics ==
  \A actual \in DOMAIN cmps :
    Mixed(actual, cmps[actual])
    => /\ fpc # "return"
       /\ fpc = "range" => actual \in todo

\* the panic came after three other pairs had been visited
C14_Witness ==
  /\ fpc = "panic"
  /\ Cardinality(DOMAIN cmps) = 5
  /\ Cardinality(todo) = 1
  /\ \E actual \in DOMAIN cmps \ todo : Mixed(actual, cmps[actual])

\* ------------------------------------------------- further claims on track.go
\* C15: when OnEnded is called several times on a track before its loop
\* fails, the slot holds the handler of the OnEnded call that returned last,
\* and the loop, when it fails, invokes the handler it finds in the slot at
\* that moment, a handler that some OnEnded call has stored, and no other.
C15_LastStoredWins ==
  /\ [](stored.track # 0
          => Track(stored.track).onErrorHandler = stored.handler)
  /\ [][ \A i \in Ids :
           Len(tracks'[i].fired) > Len(Track(i).fired)
           => /\ Track(i).onErrorHandler \in Handlers
              /\ tracks'[i].fired =
                   Append(Track(i).fired,
                          [h |-> Track(i).onErrorHandler, err |-> tracks'[i].err])
              /\ stored.track = i
                 => tracks'[i].fired[Len(tracks'[i].fired)].h = stored.handler
       ]_vars

\* handler 1 was stored, then handler 2 while the loop was running; the loop
\* has then failed and invoked handler 2
C15_Witness ==
  /\ stored = [track |-> 1, handler |-> 2, replaced |-> 1, live |-> TRUE]
  /\ Track(1).pc = "done"
  /\ Len(Track(1).fired) = 1 /\ Track(1).fired[1].h = 2

\* C16 (as claimed): when the loop of a running track ends on an error that
\* no Stop preceded, the device and the encoder of the track are closed once
\* the callback has run, without a call of Stop.
C16_ReleasedOnEnded ==
  \A i \in Ids :
    (Track(i).pc = "done" /\ Track(i).stop = "no")
    => ~d.open /\ Track(i).closed

\* C17: in one track every successful read is followed by exactly one
\* emission before the next read, reads and emissions alternate in this
\* order, only the loop moves a sample to the sink, and a read or an emission
\* that fails (the insufficient-buffer answer the video loop retries is not a
\* failure) is followed by no further read or emission.
C17_ReadThenEmit ==
  [][ \A i \in Ids :
        LET t == Track(i)
            u == tracks'[i] IN
        /\ (t.pc # u.pc) => Loop(i)
        /\ (t.pc = "read" /\ u.pc = "sample")
           => (VideoRead(i) \/ AudioRead(i)) /\ u.err = "nil"
        /\ (t.pc = "sample" /\ u.pc = "sample") => u.n = t.n /\ u.buff = t.buff
        /\ (t.pc = "sample" /\ u.pc # "sample")
           => /\ VideoSample(i) \/ AudioSample(i)
              /\ u.pc = "read" => u.n = 0 /\ u.err = "nil"
              /\ u.pc = "done" => u.err = "SinkErr"
        /\ (u.err # t.err) => t.pc # "done" /\ u.pc = "done"
        /\ t.pc = "done" => u.pc = "done" /\ u.fired = t.fired /\ u.n = t.n
    ]_vars

\* a read succeeded, the emission of its sample failed and the loop has ended
C17_Witness ==
  \E i \in Ids :
    /\ Track(i).pc = "done" /\ Track(i).err = "SinkErr"
    /\ Track(i).stop = "no"

\* C18: with reads that return the end-of-stream indicator once the device
\* and encoder are closed, and a loop that is scheduled as long as it can
\* take a step, Stop on a running track is followed by the end of the loop of
\* that track, video or audio. Neither a Stop nor the end of a loop is ever
\* undone, so "Stop leads to the end of the loop" for every track is: again
\* and again, every track stopped while running has a loop that has ended.
C18_StopEndsLoop ==
  []<>(\A i \in Ids : Track(i).stop = "clean" => Track(i).pc = "done")

\* a track whose loop was running when Stop was called has ended
C18_Witness ==
  \E i \in Ids : Track(i).stop = "clean" /\ Track(i).pc = "done"

\* C19: in the video loop an insufficient-buffer answer with required size R
\* leads to no emission and no callback; the buffer becomes a new one of
\* length 2*R and the next step of the loop is a read with it; the buffer
\* is shorter than 1024 only after an answer with 2*R < 1024.
C19_BufferDoubled ==
  /\ [](\A i \in Ids :
          (d.kind = "video" /\ Track(i).pc # "done")
          => \/ Track(i).buff >= InitBuff
             \/ \E R \in ReqSizes : 2 * R < InitBuff /\ Track(i).buff = 2 * R)
  /\ [][ \A i \in Ids :
           (VideoRead(i) /\ tracks'[i].ibe # 0)
           => /\ tracks'[i].pc = "read"
              /\ tracks'[i].buff = 2 * tracks'[i].ibe
              /\ tracks'[i].fired = Track(i).fired
              /\ tracks'[i].err = "nil"
       ]_vars

\* the encoder asked for 2000 bytes, the video loop is about to read with 4000
C19_Witness ==
  \E i \in Ids :
    /\ d.kind = "video" /\ Track(i).ibe = 2000
    /\ Track(i).buff = 4000 /\ Track(i).pc = "read"
====
